---------------------------- MODULE Spec2Model ----------------------------
(***************************************************************************)
(* UK ONS MCP server: the tool adapter (index.ts), the dataset service     *)
(* (services/dataset-service.ts) and the API client with its axios         *)
(* response interceptor (api/ons-client.ts).                               *)
(*                                                                         *)
(* Strings are sequences of pieces (a piece is a character or an opaque    *)
(* token), so that concatenation, substring search, case mapping and       *)
(* collation are computed, not assumed.                                     *)
(***************************************************************************)
EXTENDS Integers, Sequences, FiniteSets, TLC

(***************************************************************************)
(* Bounds of the model.                                                    *)
(***************************************************************************)
MaxListing == 2      \* datasets in one upstream listing page
MaxObs == 3          \* observations in one upstream observation set
MaxDims == 2         \* dimensions declared by a dataset

(***************************************************************************)
(* Generic sequence helpers.                                               *)
(***************************************************************************)
RECURSIVE SeqsUpTo(_, _)
SeqsUpTo(S, n) ==
  IF n = 0 THEN {<<>>}
  ELSE LET shorter == SeqsUpTo(S, n - 1)
       IN  shorter \cup {Append(s, x) : s \in {t \in shorter : Len(t) = n - 1}, x \in S}

Range(s) == {s[i] : i \in 1..Len(s)}

Distinct(s) == \A i, j \in 1..Len(s) : i # j => s[i] # s[j]

(***************************************************************************)
(* JavaScript string primitives.                                           *)
(***************************************************************************)
\* String.prototype.toLowerCase, piece by piece.
LowerChar(c) ==
  CASE c = "A" -> "a"
    [] c = "B" -> "b"
    [] OTHER -> c

toLowerCase(s) == [i \in 1..Len(s) |-> LowerChar(s[i])]

\* String.prototype.includes: t occurs in s as a contiguous run.
includes(s, t) ==
  \E i \in 0..(Len(s) - Len(t)) : SubSeq(s, i + 1, i + Len(t)) = t

\* Array.prototype.slice(start, end) for integer arguments: a negative index
\* counts from the end, and both are clamped to 0..length.
RelativeIndex(k, len) ==
  IF k < 0 THEN (IF len + k < 0 THEN 0 ELSE len + k)
  ELSE (IF k > len THEN len ELSE k)

slice(s, start, end) ==
  LET from == RelativeIndex(start, Len(s))
      to == RelativeIndex(end, Len(s))
  IN  IF to <= from THEN <<>> ELSE SubSeq(s, from + 1, to)

\* Array.prototype.join over strings.
RECURSIVE join(_, _)
join(parts, sep) ==
  IF Len(parts) = 0 THEN <<>>
  ELSE IF Len(parts) = 1 THEN parts[1]
  ELSE parts[1] \o sep \o join(Tail(parts), sep)


(***************************************************************************)
(* String.prototype.localeCompare (dataset-service.ts:188), as the ICU     *)
(* collation Node ships: the primary weights (digits before letters, a     *)
(* letter's case ignored) decide first, over the whole string; only when   *)
(* they tie does case decide, lower case first.                            *)
(***************************************************************************)
PrimaryWeight(c) ==
  CASE c = "1" -> 1
    [] c = "2" -> 2
    [] c = "a" -> 3
    [] c = "A" -> 3
    [] c = "b" -> 4
    [] c = "B" -> 4
    [] OTHER -> 5

TertiaryWeight(c) ==
  CASE c = "A" -> 1
    [] c = "B" -> 1
    [] OTHER -> 0

\* UTF-16 code units of the same characters.
CodeUnit(c) ==
  CASE c = "1" -> 49
    [] c = "2" -> 50
    [] c = "A" -> 65
    [] c = "B" -> 66
    [] c = "a" -> 97
    [] c = "b" -> 98
    [] OTHER -> 127

PrimaryWeights(s) == [i \in 1..Len(s) |-> PrimaryWeight(s[i])]
TertiaryWeights(s) == [i \in 1..Len(s) |-> TertiaryWeight(s[i])]
CodeUnits(s) == [i \in 1..Len(s) |-> CodeUnit(s[i])]

\* Lexicographic three-way comparison of two weight sequences: -1, 0 or 1.
RECURSIVE CompareWeights(_, _)
CompareWeights(a, b) ==
  IF Len(a) = 0 /\ Len(b) = 0 THEN 0
  ELSE IF Len(a) = 0 THEN -1
  ELSE IF Len(b) = 0 THEN 1
  ELSE IF a[1] < b[1] THEN -1
  ELSE IF a[1] > b[1] THEN 1
  ELSE CompareWeights(Tail(a), Tail(b))

localeCompare(a, b) ==
  LET primary == CompareWeights(PrimaryWeights(a), PrimaryWeights(b))
  IN  IF primary # 0 THEN primary
      ELSE CompareWeights(TertiaryWeights(a), TertiaryWeights(b))

(***************************************************************************)
(* Optional strings (a TypeScript `string | undefined`).                   *)
(***************************************************************************)
Undefined == [has |-> FALSE, s |-> <<>>]
Some(s) == [has |-> TRUE, s |-> s]

\* JavaScript truthiness of an optional string: undefined and '' are falsy.
Truthy(x) == x.has /\ x.s # <<>>

\* x || ''
OrEmpty(x) == IF Truthy(x) THEN x.s ELSE <<>>


(***************************************************************************)
(* Failures.  Every failure raised below the adapter is a plain Error, so  *)
(* its kind is carried by the text of its message alone; the adapter's own *)
(* failures are McpError with a protocol code.                             *)
(***************************************************************************)
NoError == [name |-> "", code |-> "", message |-> <<>>]
Error(message) == [name |-> "Error", code |-> "", message |-> message]
McpError(code, message) == [name |-> "McpError", code |-> code, message |-> message]
ZodError(message) == [name |-> "ZodError", code |-> "", message |-> message]

(***************************************************************************)
(* The upstream's answers to one GET.  responded = FALSE is a transport    *)
(* failure (no response); dataMessage is response.data.message, empty when *)
(* the body carries none; message is axios's own error.message.            *)
(***************************************************************************)
SuccessStatuses == {200}
FailureStatuses == {304, 400, 404, 429, 500, 503}
UpstreamMessages == {<<>>, <<"upstream detail">>}
TransportMessages == {<<"Network Error">>, <<"timeout of 10000ms exceeded">>}

AxiosMessage(status) == <<"Request failed with status code ", ToString(status)>>

Responses ==
  [responded : {TRUE}, status : SuccessStatuses, dataMessage : {<<>>}, message : {<<>>}]
  \cup {[responded |-> TRUE, status |-> st, dataMessage |-> m, message |-> AxiosMessage(st)] :
          st \in FailureStatuses, m \in UpstreamMessages}
  \cup [responded : {FALSE}, status : {0}, dataMessage : {<<>>}, message : TransportMessages]

NoResponse == [responded |-> FALSE, status |-> 0, dataMessage |-> <<>>, message |-> <<>>]

\* axios's default validateStatus: the promise resolves for 2xx only.
validateStatus(status) == status >= 200 /\ status < 300

\* Variant: the switch without its 404 case.
InterceptorSkipsNotFound(error) ==
  IF error.responded THEN
    LET status == error.status
        message == IF error.dataMessage # <<>> THEN error.dataMessage ELSE error.message
    IN  CASE status = 400 -> Error(<<"ONS API: Bad request - ">> \o message)
          [] status = 429 -> Error(<<"ONS API: Rate limit exceeded - ">> \o message)
          [] status = 500 -> Error(<<"ONS API: Server error - ">> \o message)
          [] OTHER -> Error(<<"ONS API: HTTP ", ToString(status), " - ">> \o message)
  ELSE Error(<<"ONS API: Network error - ">> \o error.message)

\* Variant: the message is always axios's own, never response.data.message.
InterceptorIgnoresUpstreamMessage(error) ==
  IF error.responded THEN
    LET status == error.status
        message == error.message
    IN  CASE status = 404 -> Error(<<"ONS API: Resource not found - ">> \o message)
          [] status = 400 -> Error(<<"ONS API: Bad request - ">> \o message)
          [] status = 429 -> Error(<<"ONS API: Rate limit exceeded - ">> \o message)
          [] status = 500 -> Error(<<"ONS API: Server error - ">> \o message)
          [] OTHER -> Error(<<"ONS API: HTTP ", ToString(status), " - ">> \o message)
  ELSE Error(<<"ONS API: Network error - ">> \o error.message)

\* ons-client.ts: the response interceptor's rejection handler.
Interceptor(error) ==
  IF error.responded THEN
    LET status == error.status
        message == IF error.dataMessage # <<>> THEN error.dataMessage ELSE error.message
    IN  CASE status = 404 -> Error(<<"ONS API: Resource not found - ">> \o message)
          [] status = 400 -> Error(<<"ONS API: Bad request - ">> \o message)
          [] status = 429 -> Error(<<"ONS API: Rate limit exceeded - ">> \o message)
          [] status = 500 -> Error(<<"ONS API: Server error - ">> \o message)
          [] OTHER -> Error(<<"ONS API: HTTP ", ToString(status), " - ">> \o message)
  ELSE Error(<<"ONS API: Network error - ">> \o error.message)

\* this.client.get: the body on a 2xx answer, the interceptor's failure otherwise.
Succeeds(response) == response.responded /\ validateStatus(response.status)

Thrown(response) == IF Succeeds(response) THEN NoError ELSE Interceptor(response)

(***************************************************************************)
(* Upstream payloads.                                                      *)
(***************************************************************************)
DimIds == {<<"time">>, <<"geography">>, <<"sex">>}

Dimension(id) == [id |-> id, name |-> id, label |-> id]

\* dataset.dimensions: absent, or the declared dimensions in order.
DimensionLists ==
  {[has |-> FALSE, list |-> <<>>]}
  \cup {[has |-> TRUE, list |-> [i \in 1..Len(ids) |-> Dimension(ids[i])]] :
          ids \in {d \in SeqsUpTo(DimIds, MaxDims) : Distinct(d)}}

DatasetIds == {<<"cpih01">>, <<"no-such-dataset">>}

DatasetBody(id, dims) ==
  [id |-> id, title |-> <<"Title of ">> \o id, description |-> <<"About ">> \o id,
   dimensions |-> dims]

NoDataset == [id |-> <<>>, title |-> <<>>, description |-> <<>>,
              dimensions |-> [has |-> FALSE, list |-> <<>>]]

\* The listing's datasets, written character by character for the search.
Catalog ==
  { [id |-> <<"a", "1">>, title |-> <<"A", "b">>, description |-> <<"b", "b">>,
     dimensions |-> [has |-> FALSE, list |-> <<>>]],
    [id |-> <<"b", "1">>, title |-> <<"B">>, description |-> <<>>,
     dimensions |-> [has |-> FALSE, list |-> <<>>]],
    [id |-> <<"1", "2">>, title |-> <<"1">>, description |-> <<"a", "B", "a">>,
     dimensions |-> [has |-> FALSE, list |-> <<>>]] }

ListingBodies ==
  {[items |-> items, count |-> Len(items), total_count |-> Cardinality(Catalog)] :
     items \in SeqsUpTo(Catalog, MaxListing)}

\* Observations: the time dimension's value, when the observation has one.
TimeValues == {Undefined, Some(<<"1", "a">>), Some(<<"a">>), Some(<<"B">>)}

Observations == [dimensions : [time : TimeValues], observation : {<<"42">>}]

ObservationBodies ==
  {[observations |-> obs, total_observations |-> Len(obs)] :
     obs \in SeqsUpTo(Observations, MaxObs)}

\* A dimension's options payload: with an items list, or without one.
OptionBodies ==
  {[hasItems |-> FALSE, items |-> <<>>], [hasItems |-> TRUE, items |-> <<"option-1">>]}


(***************************************************************************)
(* API client (ons-client.ts): the request each operation issues.          *)
(***************************************************************************)
\* A request is kept with its answer: settled once the upstream has answered (or the
\* transport has failed), with that answer and the failure the client threw for it.
Request(url) ==
  [url |-> url, hasParams |-> FALSE, limit |-> 0, offset |-> 0,
   settled |-> FALSE, response |-> NoResponse, thrown |-> NoError]

listDatasetsRequest(limit, offset) ==
  [Request(<<"/datasets">>) EXCEPT !.hasParams = TRUE, !.limit = limit, !.offset = offset]

getDatasetRequest(datasetId) == Request(<<"/datasets/">> \o datasetId)

\* encodeURIComponent, for the characters a filter value can hold.
EscapeChar(c) ==
  CASE c = " " -> "%20"
    [] c = "&" -> "%26"
    [] c = "=" -> "%3D"
    [] OTHER -> c

encodeURIComponent(s) == [i \in 1..Len(s) |-> EscapeChar(s[i])]

\* Variant: keys and values passed through encodeURIComponent.
dimensionParamsEscaped(dimensions) ==
  join([i \in 1..Len(dimensions) |->
          encodeURIComponent(dimensions[i][1]) \o <<"=">> \o encodeURIComponent(dimensions[i][2])],
       <<"&">>)

\* Object.entries(dimensions).map(([key, value]) => `${key}=${value}`).join('&')
\* A mapping is the sequence of its entries <<key, value>>.
dimensionParams(dimensions) ==
  join([i \in 1..Len(dimensions) |-> dimensions[i][1] \o <<"=">> \o dimensions[i][2]],
       <<"&">>)

observationsUrl(datasetId, edition, version, params) ==
  <<"/datasets/">> \o datasetId \o <<"/editions/">> \o edition
     \o <<"/versions/">> \o version \o <<"/observations?">> \o params

getObservationsRequest(datasetId, edition, version, dimensions) ==
  Request(observationsUrl(datasetId, edition, version, dimensionParams(dimensions)))

getDimensionOptionsRequest(datasetId, dimensionId) ==
  Request(<<"/datasets/">> \o datasetId \o <<"/dimensions/">> \o dimensionId \o <<"/options">>)

\* Variant: the caller's limit is passed on to the listing.
searchListingRequestPassesLimit(query, limit) == listDatasetsRequest(limit, 0)

\* searchDatasets, up to its await: this.listDatasets(100, 0), whatever the
\* query and the limit.
searchListingRequest(query, limit) == listDatasetsRequest(100, 0)

\* searchDatasets, after the listing has arrived.
Matches(dataset, searchTerm) ==
  \/ includes(toLowerCase(dataset.title), searchTerm)
  \/ includes(toLowerCase(dataset.description), searchTerm)
  \/ includes(toLowerCase(dataset.id), searchTerm)

searchDatasets(allDatasets, query, limit) ==
  LET searchTerm == toLowerCase(query)
      Keep(dataset) == Matches(dataset, searchTerm)
      filteredItems == slice(SelectSeq(allDatasets.items, Keep), 0, limit)
  IN  [count |-> Len(filteredItems), items |-> filteredItems, limit |-> limit,
       offset |-> 0, total_count |-> Len(filteredItems)]

(***************************************************************************)
(* Dataset service (dataset-service.ts): the pure parts.                   *)
(***************************************************************************)
\* dimensions.key = value on a Record<string, string>.
Put(dimensions, key, value) ==
  IF \E i \in 1..Len(dimensions) : dimensions[i][1] = key
  THEN [i \in 1..Len(dimensions) |->
          IF dimensions[i][1] = key THEN <<key, value>> ELSE dimensions[i]]
  ELSE Append(dimensions, <<key, value>>)

\* dataset.dimensions?.some(d => d.id === id)
Declares(dataset, id) ==
  dataset.dimensions.has /\ \E i \in 1..Len(dataset.dimensions.list) :
                               dataset.dimensions.list[i].id = id

\* getLatestData: the dimension filter built from the arguments and the dataset.
ExplicitFilters(geography, timePeriod) ==
  LET withGeography == IF Truthy(geography) THEN Put(<<>>, <<"geography">>, geography.s)
                       ELSE <<>>
  IN  IF Truthy(timePeriod) THEN Put(withGeography, <<"time">>, timePeriod.s)
      ELSE withGeography

DefaultFilters(dataset) ==
  LET withTime == IF Declares(dataset, <<"time">>) THEN Put(<<>>, <<"time">>, <<"*">>)
                  ELSE <<>>
  IN  IF Declares(dataset, <<"geography">>)
      THEN Put(withTime, <<"geography">>, <<"K02000001">>)
      ELSE withTime

LatestDataFilters(dataset, geography, timePeriod) ==
  LET dimensions == ExplicitFilters(geography, timePeriod)
  IN  IF Len(dimensions) = 0 THEN DefaultFilters(dataset) ELSE dimensions

LatestDataResult(datasetId, dataset, geography, timePeriod, dimensions, observations) ==
  [dataset_id |-> datasetId, dataset_title |-> dataset.title,
   dataset_description |-> dataset.description,
   filters_applied |-> [geography |-> geography, time_period |-> timePeriod],
   dimensions_used |-> dimensions,
   total_observations |-> observations.total_observations,
   observations |-> observations.observations]

\* Variant: the catch block leaves the inner message out.
LatestDataFailureDropsInner(datasetId, error) ==
  Error(<<"Failed to get latest data for ">> \o datasetId)

\* getLatestData's catch block.
LatestDataFailure(datasetId, error) ==
  Error(<<"Failed to get latest data for ">> \o datasetId \o <<": ">> \o error.message)

\* Variant: the comparator with its operands swapped.
CompareTimeSwapped(a, b) == localeCompare(OrEmpty(b.dimensions.time), OrEmpty(a.dimensions.time))

\* getTimeSeriesData: the comparator and the result.
CompareTime(a, b) == localeCompare(OrEmpty(a.dimensions.time), OrEmpty(b.dimensions.time))

\* observations.sort(CompareTime): Array.prototype.sort is stable, so each element
\* is inserted after the last element that does not compare greater.
RECURSIVE InsertSorted(_, _)
InsertSorted(sorted, x) ==
  IF Len(sorted) = 0 THEN <<x>>
  ELSE IF CompareTime(sorted[Len(sorted)], x) <= 0 THEN Append(sorted, x)
  ELSE Append(InsertSorted(SubSeq(sorted, 1, Len(sorted) - 1), x), sorted[Len(sorted)])

RECURSIVE sort(_)
sort(s) ==
  IF Len(s) = 0 THEN <<>>
  ELSE InsertSorted(sort(SubSeq(s, 1, Len(s) - 1)), s[Len(s)])

TimeSeriesResult(datasetId, geography, observations) ==
  [dataset_id |-> datasetId, geography |-> geography,
   time_series |-> sort(observations.observations),
   total_observations |-> observations.total_observations]

\* getDatasetDimensions: one entry of dimensionDetails, from the settled options request.
Pending == [state |-> "pending", id |-> <<>>, name |-> <<>>, label |-> <<>>,
            options |-> <<>>, hasError |-> FALSE, error |-> <<>>]

\* Variant: the callback's catch returns the entry without the error field.
DimensionDetailDropsError(dim, response, options) ==
  [state |-> "settled", id |-> dim.id, name |-> dim.name, label |-> dim.label,
   options |-> IF Succeeds(response) /\ options.hasItems THEN options.items ELSE <<>>,
   hasError |-> FALSE, error |-> <<>>]

DimensionDetail(dim, response, options) ==
  IF Succeeds(response)
  THEN [state |-> "settled", id |-> dim.id, name |-> dim.name, label |-> dim.label,
        options |-> IF options.hasItems THEN options.items ELSE <<>>,
        hasError |-> FALSE, error |-> <<>>]
  ELSE [state |-> "settled", id |-> dim.id, name |-> dim.name, label |-> dim.label,
        options |-> <<>>, hasError |-> TRUE, error |-> Thrown(response).message]

\* dataset.dimensions || []
DeclaredDimensions(dataset) == IF dataset.dimensions.has THEN dataset.dimensions.list ELSE <<>>

\* ONSApiClient.getPopularDatasets(): the static identifiers, in order.
getPopularDatasets ==
  << <<"cpih01">>, <<"regional-gdp-by-year">>, <<"wellbeing-local-authority">>,
     <<"uk-spending-on-cards">>, <<"weekly-deaths-region">>, <<"trade">>,
     <<"ageing-population-estimates">>, <<"wellbeing-quarterly">>,
     <<"traffic-camera-activity">>, <<"tax-benefits-statistics">> >>

\* popularIds.slice(0, 10)
popularIds == slice(getPopularDatasets, 0, 10)

\* The answers one popular-dataset fetch is given: a success, or a 404 with
\* the upstream's message.
PopularResponses ==
  {r \in Responses :
     \/ Succeeds(r)
     \/ r.responded /\ r.status = 404 /\ r.dataMessage # <<>>}

\* The dataset a successful popular-dataset fetch returns.
PopularBody(id) == DatasetBody(id, [has |-> FALSE, list |-> <<>>])

\* Variant: the catch block pushes an empty dataset for the failed identifier.
PushOrSkipKeepsFailed(collected, id, response) ==
  IF Succeeds(response) THEN Append(collected, PopularBody(id))
  ELSE Append(collected, NoDataset)

\* One turn of the loop: try { datasets.push(await this.getDataset(id)) }
\* catch { console.warn(...) }
PushOrSkip(collected, id, response) ==
  IF Succeeds(response) THEN Append(collected, PopularBody(id)) ELSE collected


(***************************************************************************)
(* Tool adapter (index.ts): raw tool arguments and their zod schemas.      *)
(* A raw value is undefined, a string, a number, an object whose values    *)
(* are all strings, or anything else (null, a boolean, an object with a    *)
(* non-string value).                                                      *)
(***************************************************************************)
JUndef == [t |-> "undefined", n |-> 0, s |-> <<>>, m |-> <<>>]
JStr(s) == [t |-> "string", n |-> 0, s |-> s, m |-> <<>>]
JNum(n) == [t |-> "number", n |-> n, s |-> <<>>, m |-> <<>>]
JObj(m) == [t |-> "object", n |-> 0, s |-> <<>>, m |-> m]
JOther == [t |-> "other", n |-> 0, s |-> <<>>, m |-> <<>>]

\* request.params.arguments: an object (isObject) with these fields, or not an object.
EmptyArgs ==
  [isObject |-> TRUE, limit |-> JUndef, offset |-> JUndef, dataset_id |-> JUndef,
   query |-> JUndef, edition |-> JUndef, version |-> JUndef, dimensions |-> JUndef,
   geography |-> JUndef, time_period |-> JUndef]

NotAnObject == [EmptyArgs EXCEPT !.isObject = FALSE]

zNumber(v) == v.t = "number"
zString(v) == v.t = "string"
zRecordOfString(v) == v.t = "object"
zOptional(v, valid) == v.t = "undefined" \/ valid

\* .optional().default(d)
DefaultNumber(v, d) == IF v.t = "undefined" THEN d ELSE v.n
DefaultString(v, d) == IF v.t = "undefined" THEN d ELSE v.s
\* z.string().optional()
OptionalString(v) == IF v.t = "undefined" THEN Undefined ELSE Some(v.s)

ToolNames ==
  {"list_datasets", "get_dataset", "search_datasets", "get_observation", "get_latest_data"}

\* Schema.parse(args) succeeds.
ListDatasetsArgsSchema(a) ==
  a.isObject /\ zOptional(a.limit, zNumber(a.limit)) /\ zOptional(a.offset, zNumber(a.offset))

GetDatasetArgsSchema(a) == a.isObject /\ zString(a.dataset_id)

SearchDatasetsArgsSchema(a) ==
  a.isObject /\ zString(a.query) /\ zOptional(a.limit, zNumber(a.limit))

GetObservationArgsSchema(a) ==
  /\ a.isObject
  /\ zString(a.dataset_id)
  /\ zOptional(a.edition, zString(a.edition))
  /\ zOptional(a.version, zString(a.version))
  /\ zRecordOfString(a.dimensions)

GetLatestDataArgsSchema(a) ==
  /\ a.isObject
  /\ zString(a.dataset_id)
  /\ zOptional(a.geography, zString(a.geography))
  /\ zOptional(a.time_period, zString(a.time_period))

SchemaAccepts(name, a) ==
  CASE name = "list_datasets" -> ListDatasetsArgsSchema(a)
    [] name = "get_dataset" -> GetDatasetArgsSchema(a)
    [] name = "search_datasets" -> SearchDatasetsArgsSchema(a)
    [] name = "get_observation" -> GetObservationArgsSchema(a)
    [] name = "get_latest_data" -> GetLatestDataArgsSchema(a)
    [] OTHER -> FALSE

\* The parsed arguments, defaults filled in (limit's default is the schema's).
Parsed(a, defaultLimit) ==
  [limit |-> DefaultNumber(a.limit, defaultLimit), offset |-> DefaultNumber(a.offset, 0),
   dataset_id |-> a.dataset_id.s, query |-> a.query.s,
   edition |-> DefaultString(a.edition, <<"time-series">>),
   version |-> DefaultString(a.version, <<"latest">>),
   dimensions |-> a.dimensions.m,
   geography |-> OptionalString(a.geography),
   time_period |-> OptionalString(a.time_period)]

NoArgs == Parsed(EmptyArgs, 0)

\* Variant: the catch block wraps every other failure in an McpError.
AdapterCatchWrapsAll(error) ==
  IF error.name = "ZodError"
  THEN McpError("InvalidParams", <<"Invalid parameters: ">> \o error.message)
  ELSE McpError("InternalError", error.message)

\* The catch block of the CallToolRequestSchema handler.
AdapterCatch(error) ==
  IF error.name = "ZodError"
  THEN McpError("InvalidParams", <<"Invalid parameters: ">> \o error.message)
  ELSE error

\* The result envelope: one text item holding JSON.stringify(value, null, 2).
Envelope(value) == [content |-> <<[type |-> "text", json |-> value]>>]


(***************************************************************************)
(* Inputs: the calls a client can make.                                    *)
(***************************************************************************)
MaxQuery == 2        \* characters in a search query

Queries == SeqsUpTo({"a", "A", "b"}, MaxQuery)

Limits == {JUndef} \cup {JNum(n) : n \in (0 - 2)..(MaxListing + 1)}

FilterMappings ==
  { <<>>,
    << <<<<"geography">>, <<"K02000001">>>> >>,
    << <<<<"geography">>, <<"K02000001">>>>, <<<<"time">>, <<"2023">>>> >>,
    << <<<<"time">>, <<"2023">>>>, <<<<"geography">>, <<"K02000001">>>> >>,
    << <<<<"time">>, <<"Q1", " ", "&", "2023">>>> >>,
    << <<<<"sex">>, <<"a", "=", "b">>>>, <<<<"time">>, <<"*">>>>,
       <<<<"geography">>, <<"K02000001">>>> >> }

GeographyArgs == {JUndef, JStr(<<>>), JStr(<<"K02000001">>)}
TimePeriodArgs == {JUndef, JStr(<<>>), JStr(<<"2023">>)}

ToolArguments(tool) ==
  CASE tool = "list_datasets" ->
         {[EmptyArgs EXCEPT !.limit = l, !.offset = o] :
            l \in {JUndef, JNum(1), JStr(<<"1">>)}, o \in {JUndef, JNum(1)}}
         \cup {NotAnObject}
    [] tool = "get_dataset" ->
         {[EmptyArgs EXCEPT !.dataset_id = d] :
            d \in {JStr(id) : id \in DatasetIds} \cup {JUndef, JNum(1)}}
         \cup {NotAnObject}
    [] tool = "search_datasets" ->
         {[EmptyArgs EXCEPT !.query = q, !.limit = l] :
            q \in {JStr(x) : x \in Queries}, l \in Limits}
         \cup {EmptyArgs, [EmptyArgs EXCEPT !.query = JStr(<<"a">>), !.limit = JOther]}
    [] tool = "get_observation" ->
         {[EmptyArgs EXCEPT !.dataset_id = JStr(id), !.edition = e, !.version = v,
                            !.dimensions = JObj(m)] :
            id \in DatasetIds, e \in {JUndef, JStr(<<"2021">>)},
            v \in {JUndef, JStr(<<"1">>)}, m \in FilterMappings}
         \cup {[EmptyArgs EXCEPT !.dataset_id = JStr(<<"cpih01">>)],
               [EmptyArgs EXCEPT !.dataset_id = JStr(<<"cpih01">>), !.dimensions = JOther]}
    [] tool = "get_latest_data" ->
         {[EmptyArgs EXCEPT !.dataset_id = JStr(id), !.geography = g, !.time_period = t] :
            id \in DatasetIds, g \in GeographyArgs, t \in TimePeriodArgs}
         \cup {[EmptyArgs EXCEPT !.geography = JStr(<<"K02000001">>)],
               [EmptyArgs EXCEPT !.dataset_id = JStr(<<"cpih01">>), !.time_period = JNum(2023)]}
    [] OTHER -> {EmptyArgs, NotAnObject}

UnknownNames == {"get_time_series", "health_check"}

(***************************************************************************)
(* State.                                                                  *)
(***************************************************************************)
VARIABLES
  pc,         \* where the running call is suspended: "idle", an await, or "done"
  name,       \* the tool or service operation called
  raw,        \* the call's raw arguments
  args,       \* the parsed arguments
  requests,   \* the upstream requests issued so far, in order, each with its answer
  dataset,    \* getLatestData / getDatasetDimensions: the fetched dataset
  dimensions, \* getLatestData: the dimension filter
  details,    \* getDatasetDimensions: dimensionDetails, one slot per option request
  popularDatasets, \* getPopularDatasets: its `datasets`, the datasets pushed so far
  page,       \* searchDatasets: its `allDatasets`, the listing page it received
  overtaken,  \* getDatasetDimensions: an option request settled before an earlier one
  outcome     \* what the caller receives

NoListing == [items |-> <<>>, count |-> 0, total_count |-> 0]

vars == <<pc, name, raw, args, requests, dataset, dimensions, details, popularDatasets,
         page, overtaken, outcome>>

NoValue == <<>>
NoOutcome == [kind |-> "none", value |-> NoValue, error |-> NoError]
Success(value) == [kind |-> "success", value |-> value, error |-> NoError]
Failure(error) == [kind |-> "failure", value |-> NoValue, error |-> error]

Init ==
  /\ pc = "idle"
  /\ name = ""
  /\ raw = EmptyArgs
  /\ args = NoArgs
  /\ requests = <<>>
  /\ dataset = NoDataset
  /\ dimensions = <<>>
  /\ details = <<>>
  /\ popularDatasets = <<>>
  /\ page = NoListing
  /\ overtaken = FALSE
  /\ outcome = NoOutcome

\* Variant: a tool call's failed request is issued a second time.
SettledThenReissued(i, response) ==
  LET answered == [requests EXCEPT ![i] = [@ EXCEPT !.settled = TRUE, !.response = response,
                                                   !.thrown = Thrown(response)]]
  IN  IF ~Succeeds(response) /\ name \in ToolNames
      THEN Append(answered, requests[i])
      ELSE answered

\* Request i settles with this answer.
Settled(i, response) ==
  [requests EXCEPT ![i] = [@ EXCEPT !.settled = TRUE, !.response = response,
                                    !.thrown = Thrown(response)]]


(***************************************************************************)
(* The CallToolRequestSchema handler (index.ts:136-224).  Each tool's case *)
(* runs to its first await; the failure of parse, or of the default case,  *)
(* goes through the catch block straight away.                             *)
(***************************************************************************)
\* default: throw new McpError(ErrorCode.MethodNotFound, ...)
CallUnknownTool ==
  \E tool \in UnknownNames : \E a \in ToolArguments(tool) :
    /\ pc = "idle"
    /\ name' = tool
    /\ raw' = a
    /\ outcome' = Failure(AdapterCatch(McpError("MethodNotFound", <<"Unknown tool: ", tool>>)))
    /\ pc' = "done"
    /\ UNCHANGED <<args, requests, dataset, dimensions, details, popularDatasets, page, overtaken>>

\* Schema.parse(args) throws a ZodError.
CallInvalidArguments ==
  \E tool \in ToolNames : \E a \in ToolArguments(tool) :
    /\ pc = "idle"
    /\ ~SchemaAccepts(tool, a)
    /\ name' = tool
    /\ raw' = a
    /\ outcome' = Failure(AdapterCatch(ZodError(<<"schema violation">>)))
    /\ pc' = "done"
    /\ UNCHANGED <<args, requests, dataset, dimensions, details, popularDatasets, page, overtaken>>

\* A tool call whose arguments parse: the first upstream request goes out.
Start(tool, a, parsed, request) ==
  /\ pc = "idle"
  /\ SchemaAccepts(tool, a)
  /\ name' = tool
  /\ raw' = a
  /\ args' = parsed
  /\ requests' = Append(requests, request)
  /\ pc' = tool
  /\ UNCHANGED <<dataset, dimensions, details, outcome, popularDatasets, page, overtaken>>

CallListDatasets ==
  \E a \in ToolArguments("list_datasets") :
    LET parsed == Parsed(a, 20)
    IN  Start("list_datasets", a, parsed, listDatasetsRequest(parsed.limit, parsed.offset))

CallGetDataset ==
  \E a \in ToolArguments("get_dataset") :
    LET parsed == Parsed(a, 0)
    IN  Start("get_dataset", a, parsed, getDatasetRequest(parsed.dataset_id))

\* searchDatasets always lists the first 100 datasets.
CallSearchDatasets ==
  \E a \in ToolArguments("search_datasets") :
    LET parsed == Parsed(a, 10)
    IN  Start("search_datasets", a, parsed, searchListingRequest(parsed.query, parsed.limit))

CallGetObservation ==
  \E a \in ToolArguments("get_observation") :
    LET parsed == Parsed(a, 0)
    IN  Start("get_observation", a, parsed,
              getObservationsRequest(parsed.dataset_id, parsed.edition, parsed.version,
                                     parsed.dimensions))

\* getLatestData begins with this.getDataset(datasetId).
CallGetLatestData ==
  \E a \in ToolArguments("get_latest_data") :
    LET parsed == Parsed(a, 0)
    IN  Start("get_latest_data", a, parsed, getDatasetRequest(parsed.dataset_id))

\* The awaited request of a single-request tool settles: an envelope, or the
\* client's failure through the catch block.
ListDatasetsSettled ==
  /\ pc = "list_datasets"
  /\ \E response \in Responses :
       /\ requests' = Settled(1, response)
       /\ IF Succeeds(response)
          THEN \E datasets \in ListingBodies :
                 outcome' = Success(Envelope([datasets |-> datasets.items,
                                              total |-> datasets.total_count,
                                              limit |-> args.limit, offset |-> args.offset]))
          ELSE outcome' = Failure(AdapterCatch(Thrown(response)))
  /\ pc' = "done"
  /\ UNCHANGED <<name, raw, args, dataset, dimensions, details, popularDatasets, page, overtaken>>

GetDatasetSettled ==
  /\ pc = "get_dataset"
  /\ \E response \in Responses :
       /\ requests' = Settled(1, response)
       /\ IF Succeeds(response)
          THEN \E dims \in DimensionLists :
                 outcome' = Success(Envelope(DatasetBody(args.dataset_id, dims)))
          ELSE outcome' = Failure(AdapterCatch(Thrown(response)))
  /\ pc' = "done"
  /\ UNCHANGED <<name, raw, args, dataset, dimensions, details, popularDatasets, page, overtaken>>

SearchDatasetsSettled ==
  /\ pc = "search_datasets"
  /\ \E response \in Responses :
       /\ requests' = Settled(1, response)
       /\ IF Succeeds(response)
          THEN \E allDatasets \in ListingBodies :
                 LET results == searchDatasets(allDatasets, args.query, args.limit)
                 IN  /\ page' = allDatasets
                     /\ outcome' = Success(Envelope([query |-> args.query,
                                                     results |-> results.items,
                                                     total |-> results.total_count]))
          ELSE /\ outcome' = Failure(AdapterCatch(Thrown(response)))
               /\ UNCHANGED page
  /\ pc' = "done"
  /\ UNCHANGED <<name, raw, args, dataset, dimensions, details, popularDatasets, overtaken>>

GetObservationSettled ==
  /\ pc = "get_observation"
  /\ \E response \in Responses :
       /\ requests' = Settled(1, response)
       /\ IF Succeeds(response)
          THEN \E observations \in ObservationBodies :
                 outcome' = Success(Envelope(observations))
          ELSE outcome' = Failure(AdapterCatch(Thrown(response)))
  /\ pc' = "done"
  /\ UNCHANGED <<name, raw, args, dataset, dimensions, details, popularDatasets, page, overtaken>>

(***************************************************************************)
(* getLatestData (dataset-service.ts:52-111), called by get_latest_data.   *)
(***************************************************************************)
\* The dataset fetch settles: the filter is built and the observations are
\* requested, or the catch block wraps the failure.
LatestDataDatasetSettled ==
  /\ pc = "get_latest_data"
  /\ \E response \in Responses :
       /\ IF Succeeds(response)
          THEN \E dims \in DimensionLists :
                 LET fetched == DatasetBody(args.dataset_id, dims)
                     filter == LatestDataFilters(fetched, args.geography, args.time_period)
                 IN  /\ dataset' = fetched
                     /\ dimensions' = filter
                     /\ requests' = Append(Settled(1, response),
                          getObservationsRequest(args.dataset_id, <<"time-series">>,
                                                 <<"latest">>, filter))
                     /\ pc' = "get_latest_data:observations"
                     /\ UNCHANGED outcome
          ELSE /\ outcome' = Failure(AdapterCatch(
                               LatestDataFailure(args.dataset_id, Thrown(response))))
               /\ requests' = Settled(1, response)
               /\ pc' = "done"
               /\ UNCHANGED <<dataset, dimensions>>
  /\ UNCHANGED <<name, raw, args, details, popularDatasets, page, overtaken>>

LatestDataObservationsSettled ==
  /\ pc = "get_latest_data:observations"
  /\ \E response \in Responses :
       /\ requests' = Settled(2, response)
       /\ IF Succeeds(response)
          THEN \E observations \in ObservationBodies :
                 outcome' = Success(Envelope(
                   LatestDataResult(args.dataset_id, dataset, args.geography,
                                    args.time_period, dimensions, observations)))
          ELSE outcome' = Failure(AdapterCatch(
                            LatestDataFailure(args.dataset_id, Thrown(response))))
  /\ pc' = "done"
  /\ UNCHANGED <<name, raw, args, dataset, dimensions, details, popularDatasets, page, overtaken>>


(***************************************************************************)
(* Service operations that no tool reaches; a caller of ONSDatasetService  *)
(* invokes them directly, so no adapter catch block and no envelope.       *)
(***************************************************************************)
ServiceArgs(datasetId, geography) ==
  [NoArgs EXCEPT !.dataset_id = datasetId, !.geography = geography]

\* getTimeSeriesData(datasetId, geography = 'K02000001')
CallGetTimeSeriesData ==
  \E datasetId \in DatasetIds, geography \in {Undefined, Some(<<"E92000001">>)} :
    LET given == IF geography.has THEN geography.s ELSE <<"K02000001">>
    IN  /\ pc = "idle"
        /\ name' = "getTimeSeriesData"
        /\ args' = ServiceArgs(datasetId, Some(given))
        /\ requests' = Append(requests,
             getObservationsRequest(datasetId, <<"time-series">>, <<"latest">>,
                                    << <<<<"geography">>, given>>, <<<<"time">>, <<"*">>>> >>))
        /\ pc' = "getTimeSeriesData"
        /\ UNCHANGED <<raw, dataset, dimensions, details, outcome, popularDatasets, page, overtaken>>

TimeSeriesSettled ==
  /\ pc = "getTimeSeriesData"
  /\ \E response \in Responses :
       /\ requests' = Settled(1, response)
       /\ IF Succeeds(response)
          THEN \E observations \in ObservationBodies :
                 outcome' = Success(TimeSeriesResult(args.dataset_id, args.geography.s,
                                                     observations))
          ELSE outcome' = Failure(Thrown(response))
  /\ pc' = "done"
  /\ UNCHANGED <<name, raw, args, dataset, dimensions, details, popularDatasets, page, overtaken>>

\* getDatasetDimensions(datasetId) begins with this.getDataset(datasetId).
CallGetDatasetDimensions ==
  \E datasetId \in DatasetIds :
    /\ pc = "idle"
    /\ name' = "getDatasetDimensions"
    /\ args' = ServiceArgs(datasetId, Undefined)
    /\ requests' = Append(requests, getDatasetRequest(datasetId))
    /\ pc' = "getDatasetDimensions"
    /\ UNCHANGED <<raw, dataset, dimensions, details, outcome, popularDatasets, page, overtaken>>

\* The dataset fetch settles.  dimensions.map(async ...) runs every callback
\* to its await, so all the option requests go out, in declared order, before
\* any of them settles.  A failed fetch is not caught.
DimensionsDatasetSettled ==
  /\ pc = "getDatasetDimensions"
  /\ \E response \in Responses :
       /\ IF Succeeds(response)
          THEN \E dims \in DimensionLists :
                 LET fetched == DatasetBody(args.dataset_id, dims)
                     declared == DeclaredDimensions(fetched)
                 IN  /\ dataset' = fetched
                     /\ requests' = Settled(1, response) \o
                          [i \in 1..Len(declared) |->
                             getDimensionOptionsRequest(args.dataset_id, declared[i].id)]
                     /\ details' = [i \in 1..Len(declared) |-> Pending]
                     /\ pc' = "getDatasetDimensions:options"
                     /\ UNCHANGED outcome
          ELSE /\ outcome' = Failure(Thrown(response))
               /\ requests' = Settled(1, response)
               /\ pc' = "done"
               /\ UNCHANGED <<dataset, details>>
  /\ UNCHANGED <<name, raw, args, dimensions, popularDatasets, page, overtaken>>

\* One of the concurrent option requests settles, in any order: its callback
\* turns the answer, or the caught failure, into its entry.
DimensionOptionsSettled ==
  /\ pc = "getDatasetDimensions:options"
  /\ \E i \in 1..Len(details) :
       /\ details[i].state = "pending"
       /\ \E response \in Responses :
            /\ requests' = Settled(i + 1, response)
            /\ overtaken' = (overtaken \/ \E j \in 1..(i - 1) : details[j].state = "pending")
            /\ IF Succeeds(response)
               THEN \E options \in OptionBodies :
                      details' = [details EXCEPT ![i] =
                        DimensionDetail(DeclaredDimensions(dataset)[i], response, options)]
               ELSE details' = [details EXCEPT ![i] =
                        DimensionDetail(DeclaredDimensions(dataset)[i], response,
                                        [hasItems |-> FALSE, items |-> <<>>])]
  /\ UNCHANGED <<pc, name, raw, args, dataset, dimensions, outcome, popularDatasets, page>>

\* Variant: the call returns without awaiting the callbacks still pending.
DimensionsReturnEarly ==
  /\ pc = "getDatasetDimensions:options"
  /\ outcome' = Success([dataset_id |-> args.dataset_id, dataset_title |-> dataset.title,
                         dimensions |-> details])
  /\ pc' = "done"
  /\ UNCHANGED <<name, raw, args, requests, dataset, dimensions, details, popularDatasets,
                 page, overtaken>>

\* Promise.all resolves once every callback has returned.
DimensionsReturn ==
  /\ pc = "getDatasetDimensions:options"
  /\ \A i \in 1..Len(details) : details[i].state = "settled"
  /\ outcome' = Success([dataset_id |-> args.dataset_id, dataset_title |-> dataset.title,
                         dimensions |-> details])
  /\ pc' = "done"
  /\ UNCHANGED <<name, raw, args, requests, dataset, dimensions, details, popularDatasets, page, overtaken>>

\* getPopularDatasets() begins its loop: the first identifier is fetched.
CallGetPopularDatasets ==
  /\ pc = "idle"
  /\ name' = "getPopularDatasets"
  /\ popularDatasets' = <<>>
  /\ IF Len(popularIds) = 0
     THEN /\ outcome' = Success(<<>>)
          /\ pc' = "done"
          /\ UNCHANGED requests
     ELSE /\ requests' = Append(requests, getDatasetRequest(popularIds[1]))
          /\ pc' = "getPopularDatasets"
          /\ UNCHANGED outcome
  /\ UNCHANGED <<raw, args, dataset, dimensions, details, page, overtaken>>

\* The fetch of the loop's current identifier settles: pushed, or caught and
\* logged; then the next identifier is fetched, or the list is returned.
PopularDatasetSettled ==
  /\ pc = "getPopularDatasets"
  /\ \E response \in PopularResponses :
       LET i == Len(requests)
           collected == PushOrSkip(popularDatasets, popularIds[i], response)
       IN  /\ popularDatasets' = collected
           /\ IF i < Len(popularIds)
              THEN /\ requests' = Append(Settled(i, response),
                                         getDatasetRequest(popularIds[i + 1]))
                   /\ UNCHANGED <<pc, outcome>>
              ELSE /\ requests' = Settled(i, response)
                   /\ outcome' = Success(collected)
                   /\ pc' = "done"
  /\ UNCHANGED <<name, raw, args, dataset, dimensions, details, page, overtaken>>

Next ==
  \/ CallUnknownTool
  \/ CallInvalidArguments
  \/ CallListDatasets
  \/ ListDatasetsSettled
  \/ CallGetDataset
  \/ GetDatasetSettled
  \/ CallSearchDatasets
  \/ SearchDatasetsSettled
  \/ CallGetObservation
  \/ GetObservationSettled
  \/ CallGetLatestData
  \/ LatestDataDatasetSettled
  \/ LatestDataObservationsSettled
  \/ CallGetTimeSeriesData
  \/ TimeSeriesSettled
  \/ CallGetDatasetDimensions
  \/ DimensionsDatasetSettled
  \/ DimensionOptionsSettled
  \/ DimensionsReturn
  \/ CallGetPopularDatasets
  \/ PopularDatasetSettled

Spec == Init /\ [][Next]_vars


(***************************************************************************)
(* Vocabulary of the properties.                                           *)
(***************************************************************************)
IsToolCall == name \in ToolNames \cup UnknownNames

\* The value inside a success envelope.
Returned == outcome.value.content[1].json

\* Two characters that differ at most in case.
SameLetter(c, d) == c = d \/ {c, d} \in {{"a", "A"}, {"b", "B"}}

\* q occurs in field, case ignored: at some offset every character agrees.
ContainsIgnoringCase(field, q) ==
  \E i \in 0..(Len(field) - Len(q)) : \A j \in 1..Len(q) : SameLetter(field[i + j], q[j])

SearchReturned == pc = "done" /\ name = "search_datasets" /\ outcome.kind = "success"

(***************************************************************************)
(* C1.  For every query, every numeric limit (0 and negative values        *)
(* included) and every upstream listing, search_datasets returns at most   *)
(* `limit` items, and every returned item's title, description or id       *)
(* contains the query as a case-insensitive substring.                     *)
(* Fails: a negative limit makes slice(0, limit) drop items from the end,  *)
(* so limit = -1 over two matching datasets returns one item.              *)
(***************************************************************************)
C1_SearchWithinLimitAndMatching ==
  SearchReturned =>
    /\ Len(Returned.results) <= args.limit
    /\ \A i \in 1..Len(Returned.results) :
         \/ ContainsIgnoringCase(Returned.results[i].title, args.query)
         \/ ContainsIgnoringCase(Returned.results[i].description, args.query)
         \/ ContainsIgnoringCase(Returned.results[i].id, args.query)

(***************************************************************************)
(* C2.  When the upstream answers get_dataset with HTTP 404, the tool call *)
(* fails with the not-found failure, and the caller receives exactly the   *)
(* failure the client threw: no envelope, no rewrapping by the service or  *)
(* the adapter.                                                            *)
(***************************************************************************)
GetDatasetAnswered404 ==
  /\ name = "get_dataset"
  /\ Len(requests) = 1
  /\ requests[1].settled
  /\ requests[1].response.responded
  /\ requests[1].response.status = 404

C2_NotFoundReachesCaller ==
  GetDatasetAnswered404 =>
    /\ pc = "done"
    /\ outcome.kind = "failure"
    /\ outcome.value = NoValue
    /\ outcome.error.name = "Error"
    /\ outcome.error.message[1] = "ONS API: Resource not found - "
    /\ outcome.error = requests[1].thrown

C2_Witness ==
  /\ GetDatasetAnswered404
  /\ args.dataset_id = <<"no-such-dataset">>
  /\ outcome.error.message = <<"ONS API: Resource not found - ", "upstream detail">>


(***************************************************************************)
(* Orders on strings, stated without the comparison the code runs: weight  *)
(* sequence a <= b when, after a common run of equal weights, a has ended  *)
(* or a's next weight is the smaller.                                      *)
(***************************************************************************)
AgreeUpTo(a, b, k) ==
  k <= Len(a) /\ k <= Len(b) /\ \A j \in 1..k : a[j] = b[j]

LexLeq(a, b) ==
  \E k \in 0..Len(a) :
    /\ AgreeUpTo(a, b, k)
    /\ \/ k = Len(a)
       \/ k < Len(b) /\ a[k + 1] < b[k + 1]

\* Lexical order of the UTF-16 code units.
LexicalLeq(a, b) == LexLeq(CodeUnits(a), CodeUnits(b))

\* Collation order: the primary weights first, case only on a primary tie.
CollationLeq(a, b) ==
  IF PrimaryWeights(a) = PrimaryWeights(b)
  THEN LexLeq(TertiaryWeights(a), TertiaryWeights(b))
  ELSE LexLeq(PrimaryWeights(a), PrimaryWeights(b))

TimeSeriesReturned == pc = "done" /\ name = "getTimeSeriesData" /\ outcome.kind = "success"

\* The time field of the i-th returned observation, '' when it has none.
TimeOf(i) ==
  IF outcome.value.time_series[i].dimensions.time.has
  THEN outcome.value.time_series[i].dimensions.time.s
  ELSE <<>>

(***************************************************************************)
(* C3 as stated.  The time_series returned by getTimeSeriesData is         *)
(* non-decreasing under lexical (code unit) string ordering of the time    *)
(* field for all adjacent pairs, a missing time counting as ''.            *)
(* Fails: the comparator is localeCompare, which puts 'a' before 'B'.      *)
(***************************************************************************)
C3_TimeSeriesLexicallySorted ==
  TimeSeriesReturned =>
    \A i \in 1..(Len(outcome.value.time_series) - 1) : LexicalLeq(TimeOf(i), TimeOf(i + 1))

(***************************************************************************)
(* C3 amended.  The time_series returned by getTimeSeriesData is           *)
(* non-decreasing under the collation order of localeCompare for all       *)
(* adjacent pairs, a missing time counting as ''.                          *)
(***************************************************************************)
C3_TimeSeriesCollationSorted ==
  TimeSeriesReturned =>
    \A i \in 1..(Len(outcome.value.time_series) - 1) : CollationLeq(TimeOf(i), TimeOf(i + 1))

\* Three observations returned, one of them without a time, 'a' placed before 'B'.
C3_Witness ==
  /\ TimeSeriesReturned
  /\ Len(outcome.value.time_series) = 3
  /\ ~outcome.value.time_series[1].dimensions.time.has
  /\ TimeOf(2) = <<"a">>
  /\ TimeOf(3) = <<"B">>


(***************************************************************************)
(* getLatestData: what the call was given and what it asked the upstream.  *)
(***************************************************************************)
\* getLatestData has fetched the dataset and built its filter.
LatestDataFiltered ==
  /\ name = "get_latest_data"
  /\ pc \in {"get_latest_data:observations", "done"}
  /\ Len(requests) = 2

\* An argument is given when the caller passed a string, '' included.
GeographyGiven == raw.geography.t = "string"
TimePeriodGiven == raw.time_period.t = "string"

\* The filter as a mapping: the set of its entries, each key once.
FilterIs(entries) ==
  /\ Range(dimensions) = entries
  /\ Len(dimensions) = Cardinality(entries)

\* The second request asks for the latest time-series version with this query string.
ObservationsAskedWith(query) ==
  requests[2].url = <<"/datasets/">> \o args.dataset_id
                      \o <<"/editions/", "time-series", "/versions/", "latest", "/observations?">>
                      \o query

(***************************************************************************)
(* C4.  With both geography and time_period given (any strings, '' too),   *)
(* the default heuristic is never applied: the observation request's       *)
(* filter is exactly {geography: given, time: given} and filters_applied   *)
(* holds the two given values, whatever the dataset declares.              *)
(* Fails: `if (geography)` and `if (timePeriod)` treat '' as not given.    *)
(***************************************************************************)
C4_ExplicitFiltersExact ==
  (LatestDataFiltered /\ GeographyGiven /\ TimePeriodGiven) =>
    /\ FilterIs({<<<<"geography">>, raw.geography.s>>, <<<<"time">>, raw.time_period.s>>})
    /\ ObservationsAskedWith(<<"geography", "=">> \o raw.geography.s
                               \o <<"&", "time", "=">> \o raw.time_period.s)
    /\ (pc = "done" /\ outcome.kind = "success") =>
         /\ Returned.filters_applied.geography = Some(raw.geography.s)
         /\ Returned.filters_applied.time_period = Some(raw.time_period.s)

(***************************************************************************)
(* C10.  With neither geography nor time_period given, the filter holds    *)
(* time='*' iff the dataset declares a dimension 'time', and               *)
(* geography='K02000001' iff it declares a dimension 'geography', and      *)
(* nothing else; with at least one of the two given, the filter holds only *)
(* the given arguments and no default.                                     *)
(* Fails with C4's defect: an argument given as '' is dropped, and when    *)
(* nothing else is given the defaults are added.                           *)
(***************************************************************************)
DeclaresId(id) ==
  dataset.dimensions.has /\ id \in {dataset.dimensions.list[i].id :
                                      i \in 1..Len(dataset.dimensions.list)}

C10_DefaultsOnlyWhenNothingGiven ==
  LatestDataFiltered =>
    IF ~GeographyGiven /\ ~TimePeriodGiven
    THEN FilterIs({e \in {<<<<"time">>, <<"*">>>>, <<<<"geography">>, <<"K02000001">>>>} :
                     DeclaresId(e[1])})
    ELSE FilterIs((IF GeographyGiven THEN {<<<<"geography">>, raw.geography.s>>} ELSE {})
                  \cup (IF TimePeriodGiven THEN {<<<<"time">>, raw.time_period.s>>} ELSE {}))


(***************************************************************************)
(* Upstream answers, as the properties see them.                           *)
(***************************************************************************)
\* Request i was answered with a 2xx status.
Answered2xx(i) ==
  /\ requests[i].settled
  /\ requests[i].response.responded
  /\ requests[i].response.status \in 200..299

\* Request i failed: a non-2xx answer, or no answer at all.
RequestFailed(i) == requests[i].settled /\ ~Answered2xx(i)

\* The failure kinds, each with the text that marks it in a message.
KindMarkers ==
  { <<"not-found", "ONS API: Resource not found - ">>,
    <<"bad-request", "ONS API: Bad request - ">>,
    <<"rate-limited", "ONS API: Rate limit exceeded - ">>,
    <<"upstream-server-error", "ONS API: Server error - ">>,
    <<"generic-http-error", "ONS API: HTTP ">>,
    <<"network-error", "ONS API: Network error - ">> }

\* The kinds a message carries.
KindsIn(message) == {m[1] : m \in {k \in KindMarkers : k[2] \in Range(message)}}

\* The kind the status table assigns to an answer.
KindByStatus(response) ==
  IF ~response.responded THEN "network-error"
  ELSE CASE response.status = 404 -> "not-found"
         [] response.status = 400 -> "bad-request"
         [] response.status = 429 -> "rate-limited"
         [] response.status = 500 -> "upstream-server-error"
         [] OTHER -> "generic-http-error"

\* message ends with tail.
EndsWith(message, tail) ==
  Len(tail) <= Len(message)
    /\ SubSeq(message, Len(message) - Len(tail) + 1, Len(message)) = tail

(***************************************************************************)
(* C5.  Whenever the dataset-metadata fetch succeeds, getDatasetDimensions *)
(* does not fail and returns one entry per declared dimension, even if     *)
(* every options fetch fails; an entry whose options fetch failed has      *)
(* empty options and the failure's message, an entry whose fetch succeeded *)
(* has no error field.                                                     *)
(***************************************************************************)
DimensionsFetched ==
  /\ name = "getDatasetDimensions"
  /\ Len(requests) >= 1
  /\ Answered2xx(1)

DeclaredIds ==
  IF dataset.dimensions.has
  THEN [i \in 1..Len(dataset.dimensions.list) |-> dataset.dimensions.list[i].id]
  ELSE <<>>

C5_DimensionsDegradePerEntry ==
  DimensionsFetched =>
    /\ outcome.kind # "failure"
    /\ Len(requests) = 1 + Len(DeclaredIds)
    /\ (\A i \in 2..Len(requests) : requests[i].settled) => ENABLED DimensionsReturn \/ pc = "done"
    /\ pc = "done" =>
         /\ outcome.kind = "success"
         /\ Len(outcome.value.dimensions) = Len(DeclaredIds)
         /\ \A i \in 1..Len(DeclaredIds) :
              LET entry == outcome.value.dimensions[i]
              IN  /\ entry.id = DeclaredIds[i]
                  /\ IF RequestFailed(i + 1)
                     THEN /\ entry.options = <<>>
                          /\ entry.hasError
                          /\ entry.error # <<>>
                          /\ entry.error = requests[i + 1].thrown.message
                     ELSE ~entry.hasError

\* Two declared dimensions, both option fetches failed, and the call returned.
C5_Witness ==
  /\ DimensionsFetched
  /\ pc = "done"
  /\ Len(DeclaredIds) = 2
  /\ RequestFailed(2) /\ RequestFailed(3)
  /\ outcome.kind = "success"
  /\ outcome.value.dimensions[1].hasError /\ outcome.value.dimensions[2].hasError

(***************************************************************************)
(* C6.  Every non-2xx upstream answer is turned into exactly one failure   *)
(* kind by its status (404 not-found, 400 bad-request, 429 rate-limited,   *)
(* 500 upstream-server-error, any other generic-http-error), carrying the  *)
(* upstream message when there is one; a failure with no answer becomes    *)
(* network-error and never one of the status kinds.                        *)
(***************************************************************************)
C6_StatusDecidesFailureKind ==
  \A i \in 1..Len(requests) :
    RequestFailed(i) =>
      LET response == requests[i].response
          failure == requests[i].thrown
      IN  /\ failure.name = "Error"
          /\ KindsIn(failure.message) = {KindByStatus(response)}
          /\ <<KindByStatus(response), failure.message[1]>> \in KindMarkers
          /\ (response.responded /\ response.dataMessage # <<>>) =>
               EndsWith(failure.message, response.dataMessage)
          /\ ~response.responded => EndsWith(failure.message, response.message)

\* A 429 with an upstream message, and a transport failure, both classified.
C6_Witness ==
  /\ Len(requests) = 3
  /\ RequestFailed(2)
  /\ requests[2].response.status = 429
  /\ requests[2].thrown.message = <<"ONS API: Rate limit exceeded - ", "upstream detail">>
  /\ RequestFailed(3)
  /\ ~requests[3].response.responded
  /\ requests[3].thrown.message = <<"ONS API: Network error - ", "Network Error">>


(***************************************************************************)
(* C7.  getObservations requests                                           *)
(* /datasets/{id}/editions/{edition}/versions/{version}/observations?      *)
(* followed by the mapping's entries as key=value, joined by '&', in the   *)
(* mapping's entry order, nothing escaped; an empty mapping gives an empty *)
(* query string.                                                           *)
(***************************************************************************)
\* Characters entry i takes in the query string: key, '=', value.
EntryLen(entries, i) == Len(entries[i][1]) + 1 + Len(entries[i][2])

\* Where entry i starts: after the entries before it, each followed by '&'.
RECURSIVE EntryOffset(_, _)
EntryOffset(entries, i) ==
  IF i = 1 THEN 0 ELSE EntryOffset(entries, i - 1) + EntryLen(entries, i - 1) + 1

\* q is the entries laid out in order, verbatim.
LaidOutVerbatim(q, entries) ==
  LET n == Len(entries)
  IN  /\ Len(q) = IF n = 0 THEN 0 ELSE EntryOffset(entries, n) + EntryLen(entries, n)
      /\ \A i \in 1..n :
           LET at == EntryOffset(entries, i)
               key == entries[i][1]
               value == entries[i][2]
           IN  /\ SubSeq(q, at + 1, at + Len(key)) = key
               /\ q[at + Len(key) + 1] = "="
               /\ SubSeq(q, at + Len(key) + 2, at + EntryLen(entries, i)) = value
               /\ i < n => q[at + EntryLen(entries, i) + 1] = "&"

\* The url is the versioned observations path followed by the laid-out entries.
ObservationsUrlIs(url, datasetId, edition, version, entries) ==
  LET path == <<"/datasets/">> \o datasetId \o <<"/editions/">> \o edition
                \o <<"/versions/">> \o version \o <<"/observations?">>
  IN  /\ Len(url) >= Len(path)
      /\ SubSeq(url, 1, Len(path)) = path
      /\ LaidOutVerbatim(SubSeq(url, Len(path) + 1, Len(url)), entries)

C7_ObservationsQueryVerbatim ==
  /\ (name = "get_observation" /\ Len(requests) >= 1) =>
       ObservationsUrlIs(requests[1].url, args.dataset_id, args.edition, args.version,
                         raw.dimensions.m)
  /\ LatestDataFiltered =>
       ObservationsUrlIs(requests[2].url, args.dataset_id, <<"time-series">>, <<"latest">>,
                         dimensions)

\* The example mapping {geography: K02000001, time: 2023}, sent as it is.
C7_Witness ==
  /\ name = "get_observation"
  /\ Len(requests) = 1
  /\ raw.dimensions.m = << <<<<"geography">>, <<"K02000001">>>>, <<<<"time">>, <<"2023">>>> >>
  /\ requests[1].url = <<"/datasets/", "cpih01", "/editions/", "time-series", "/versions/",
                         "latest", "/observations?",
                         "geography", "=", "K02000001", "&", "time", "=", "2023">>

(***************************************************************************)
(* C8.  Every tool call ends in exactly one of: a success envelope; an     *)
(* invalid-parameters failure, iff the arguments violate the tool's        *)
(* schema, and then no upstream request was issued; an unrecognized-       *)
(* operation failure, iff the name is none of the five tools, again with   *)
(* no upstream request; or a failure raised below the adapter, which       *)
(* reaches the caller unmodified.                                          *)
(***************************************************************************)
\* The tool surface: each tool's required and optional fields with their types.
RequiredFields(tool) ==
  CASE tool = "list_datasets" -> {}
    [] tool = "get_dataset" -> {<<"dataset_id", "string">>}
    [] tool = "search_datasets" -> {<<"query", "string">>}
    [] tool = "get_observation" -> {<<"dataset_id", "string">>, <<"dimensions", "object">>}
    [] tool = "get_latest_data" -> {<<"dataset_id", "string">>}
    [] OTHER -> {}

OptionalFields(tool) ==
  CASE tool = "list_datasets" -> {<<"limit", "number">>, <<"offset", "number">>}
    [] tool = "search_datasets" -> {<<"limit", "number">>}
    [] tool = "get_observation" -> {<<"edition", "string">>, <<"version", "string">>}
    [] tool = "get_latest_data" -> {<<"geography", "string">>, <<"time_period", "string">>}
    [] OTHER -> {}

ArgumentsConform ==
  /\ raw.isObject
  /\ \A f \in RequiredFields(name) : raw[f[1]].t = f[2]
  /\ \A f \in OptionalFields(name) : raw[f[1]].t \in {f[2], "undefined"}

IsEnvelope ==
  /\ outcome.kind = "success"
  /\ Len(outcome.value.content) = 1
  /\ outcome.value.content[1].type = "text"

IsInvalidParameters ==
  outcome.kind = "failure" /\ outcome.error.name = "McpError"
    /\ outcome.error.code = "InvalidParams"

IsUnrecognizedOperation ==
  outcome.kind = "failure" /\ outcome.error.name = "McpError"
    /\ outcome.error.code = "MethodNotFound"

IsFailureFromBelow == outcome.kind = "failure" /\ outcome.error.name = "Error"

\* The failure the service raised: the client's own, or getLatestData's wrapping of it.
RaisedBelow ==
  LET inner == requests[Len(requests)].thrown
  IN  IF name = "get_latest_data"
      THEN [name |-> "Error", code |-> "",
            message |-> <<"Failed to get latest data for ">> \o args.dataset_id
                          \o <<": ">> \o inner.message]
      ELSE inner

C8_ToolCallEndsOneWay ==
  (IsToolCall /\ pc = "done") =>
    /\ Cardinality({k \in {"envelope", "invalid", "unrecognized", "below"} :
                      \/ k = "envelope" /\ IsEnvelope
                      \/ k = "invalid" /\ IsInvalidParameters
                      \/ k = "unrecognized" /\ IsUnrecognizedOperation
                      \/ k = "below" /\ IsFailureFromBelow}) = 1
    /\ IsInvalidParameters <=> (name \in ToolNames /\ ~ArgumentsConform)
    /\ IsUnrecognizedOperation <=> name \notin ToolNames
    /\ (IsInvalidParameters \/ IsUnrecognizedOperation) => requests = <<>>
    /\ IsFailureFromBelow =>
         /\ requests # <<>>
         /\ RequestFailed(Len(requests))
         /\ outcome.error = RaisedBelow

\* A call with a wrongly typed argument ended as invalid-parameters, nothing sent.
C8_Witness ==
  /\ pc = "done"
  /\ name = "get_latest_data"
  /\ raw.time_period.t = "number"
  /\ IsInvalidParameters
  /\ requests = <<>>

(***************************************************************************)
(* C9.  When the dataset fetch or the observations fetch of getLatestData  *)
(* fails, getLatestData fails with a failure whose message contains the    *)
(* dataset id and the inner failure's message, and whose kind is the inner *)
(* failure's kind.                                                         *)
(***************************************************************************)
LatestDataStepFailed ==
  /\ name = "get_latest_data"
  /\ requests # <<>>
  /\ RequestFailed(Len(requests))

C9_LatestDataWrapsKeepingKind ==
  LatestDataStepFailed =>
    LET inner == requests[Len(requests)].thrown
    IN  /\ pc = "done"
        /\ outcome.kind = "failure"
        /\ outcome.error.name = inner.name
        /\ includes(outcome.error.message, args.dataset_id)
        /\ includes(outcome.error.message, inner.message)
        /\ outcome.error.message # inner.message
        /\ KindsIn(outcome.error.message) = KindsIn(inner.message)
        /\ Cardinality(KindsIn(outcome.error.message)) = 1

\* The observations fetch was rate-limited after the dataset fetch had succeeded.
C9_Witness ==
  /\ LatestDataStepFailed
  /\ Len(requests) = 2
  /\ requests[2].response.status = 429
  /\ outcome.error.message =
       <<"Failed to get latest data for ", "cpih01", ": ",
         "ONS API: Rate limit exceeded - ", "upstream detail">>

(***************************************************************************)
(* getPopularDatasets: the fetches made and the list returned.             *)
(***************************************************************************)
PopularRunning == name = "getPopularDatasets" /\ pc # "idle"

PopularReturned == name = "getPopularDatasets" /\ pc = "done"

\* The positions in the static list whose fetch was answered 2xx.
FetchedPositions == {i \in 1..Len(requests) : Answered2xx(i)}

\* The k-th smallest of those positions.
FetchedPosition(k) ==
  CHOOSE i \in FetchedPositions : Cardinality({j \in FetchedPositions : j <= i}) = k

(***************************************************************************)
(* C11.  getPopularDatasets never fails because of a per-identifier fetch  *)
(* failure: for every pattern of successes and failures over the ten       *)
(* static identifiers it returns exactly the metadata of the identifiers   *)
(* whose fetch succeeded, in the static list's order, and a failure on one *)
(* identifier does not stop the fetches of the identifiers after it.       *)
(***************************************************************************)
C11_PopularDatasetsSkipFailures ==
  /\ PopularRunning => outcome.kind # "failure"
  /\ PopularRunning =>
       \A i \in 1..Len(requests) :
         /\ i <= 10
         /\ requests[i].url = <<"/datasets/">> \o getPopularDatasets[i]
         /\ (i < Len(requests) => requests[i].settled)
  /\ PopularReturned =>
       /\ outcome.kind = "success"
       /\ Len(getPopularDatasets) = 10
       /\ Len(requests) = 10
       /\ \A i \in 1..10 : requests[i].settled
       /\ Len(outcome.value) = Cardinality(FetchedPositions)
       /\ \A k \in 1..Len(outcome.value) :
            LET id == getPopularDatasets[FetchedPosition(k)]
            IN  /\ outcome.value[k].id = id
                /\ outcome.value[k].title = <<"Title of ">> \o id
                /\ outcome.value[k].description = <<"About ">> \o id

\* The first and the ninth fetch failed with a 404, the second and the tenth
\* succeeded: eight datasets come back.
C11_Witness ==
  /\ PopularReturned
  /\ requests[1].response.status = 404
  /\ Answered2xx(2)
  /\ RequestFailed(9)
  /\ FetchedPositions = (2..8) \cup {10}
  /\ Len(outcome.value) = 8
  /\ outcome.value[1].id = <<"regional-gdp-by-year">>
  /\ outcome.value[8].id = <<"tax-benefits-statistics">>

(***************************************************************************)
(* searchDatasets: the listing it asked for and the page it filtered.      *)
(***************************************************************************)
\* A search whose arguments the schema accepts has been started.
SearchCalled == name = "search_datasets" /\ pc # "idle" /\ ArgumentsConform

\* The dataset matches the query, case ignored, in one of the three fields.
MatchesQuery(d, q) ==
  \/ ContainsIgnoringCase(d.title, q)
  \/ ContainsIgnoringCase(d.description, q)
  \/ ContainsIgnoringCase(d.id, q)

ToolRunning == name \in ToolNames /\ pc # "idle"

\* The same request: the same URL with the same query parameters.
SameRequest(i, j) ==
  /\ requests[i].url = requests[j].url
  /\ requests[i].hasParams = requests[j].hasParams
  /\ requests[i].limit = requests[j].limit
  /\ requests[i].offset = requests[j].offset

(***************************************************************************)
(* C13.  No upstream request is ever retried: in every execution of any of *)
(* the five tools, each upstream request is issued at most once, a failed  *)
(* request makes the whole tool call fail immediately, and no further      *)
(* upstream request is issued after it (in get_latest_data, a failed       *)
(* dataset-metadata fetch means the observations request is never sent).   *)
(***************************************************************************)
C13_NoRetryFailFast ==
  ToolRunning =>
    /\ \A i, j \in 1..Len(requests) : i # j => ~SameRequest(i, j)
    /\ \A i \in 1..Len(requests) :
         RequestFailed(i) =>
           /\ i = Len(requests)
           /\ pc = "done"
           /\ outcome.kind = "failure"
    /\ \A i \in 1..Len(requests) : i < Len(requests) => Answered2xx(i)
    /\ (name = "get_latest_data" /\ requests # <<>> /\ RequestFailed(1)) =>
         /\ Len(requests) = 1
         /\ \A i \in 1..Len(requests) : ~includes(requests[i].url, <<"/observations?">>)

\* get_latest_data: the dataset fetch met a server error, the call has failed
\* and the dataset request is the only one sent.
C13_Witness ==
  /\ ToolRunning
  /\ name = "get_latest_data"
  /\ pc = "done"
  /\ Len(requests) = 1
  /\ requests[1].url = <<"/datasets/", "cpih01">>
  /\ requests[1].settled
  /\ requests[1].response.status = 500
  /\ outcome.kind = "failure"

(***************************************************************************)
(* getDatasetDimensions: the concurrent option requests.                   *)
(***************************************************************************)
DimensionsAwaiting == name = "getDatasetDimensions" /\ pc = "getDatasetDimensions:options"

DimensionsReturned == name = "getDatasetDimensions" /\ outcome.kind = "success"

\* The URL of the options request of a declared dimension.
OptionsUrl(dimensionId) ==
  <<"/datasets/">> \o args.dataset_id \o <<"/dimensions/">> \o dimensionId \o <<"/options">>

(***************************************************************************)
(* C14.  In every interleaving of the concurrent per-dimension option      *)
(* requests of getDatasetDimensions (any completion order, any mix of      *)
(* successes and failures), the call returns only after all of the         *)
(* requests have settled, and the returned dimensions list is in the       *)
(* dataset's declared dimension order, so the result does not depend on    *)
(* the order in which the requests complete.                               *)
(***************************************************************************)
C14_DimensionsAwaitAllInDeclaredOrder ==
  /\ DimensionsAwaiting =>
       /\ outcome.kind = "none"
       /\ Len(requests) = 1 + Len(DeclaredIds)
       /\ \A i \in 1..Len(DeclaredIds) :
            requests[i + 1].settled <=> details[i].state = "settled"
  /\ DimensionsReturned =>
       /\ pc = "done"
       /\ Len(requests) = 1 + Len(DeclaredIds)
       /\ \A i \in 1..Len(requests) : requests[i].settled
       /\ Len(outcome.value.dimensions) = Len(DeclaredIds)
       /\ \A i \in 1..Len(DeclaredIds) :
            LET entry == outcome.value.dimensions[i]
            IN  /\ entry.state = "settled"
                /\ entry.id = DeclaredIds[i]
                /\ requests[i + 1].url = OptionsUrl(DeclaredIds[i])
                /\ entry.hasError <=> RequestFailed(i + 1)
                /\ entry.hasError => entry.error = requests[i + 1].thrown.message

\* The second dimension's request settled first, as a failure, then the first
\* dimension's, as a success: the entries come back in declared order.
C14_Witness ==
  /\ DimensionsReturned
  /\ DeclaredIds = << <<"time">>, <<"geography">> >>
  /\ overtaken
  /\ Answered2xx(2)
  /\ RequestFailed(3)
  /\ outcome.value.dimensions[1].id = <<"time">>
  /\ ~outcome.value.dimensions[1].hasError
  /\ outcome.value.dimensions[2].id = <<"geography">>
  /\ outcome.value.dimensions[2].hasError

=============================================================================
